---- MODULE Spec2Model ----
(***************************************************************************)
(* Workload simulator (src/apps/workload-simulator/server.js): the signal  *)
(* generator computeUsers, the resource shadow adjustMemory/doCpuWork, the *)
(* timer callback simulationTick and the GET /api/status handler.          *)
(*                                                                         *)
(* Numbers.  JavaScript numbers are modelled exactly as rationals:         *)
(*   - time is in whole seconds (clock, elapsed, posInCycle);              *)
(*   - the local `base` is kept as a numerator over rampSec;               *)
(*   - Math.random() is k / RandScale for a drawn integer k;               *)
(*   - 0.88 = 22/25, 0.24 = 6/25, BURST_MULTIPLIER 1.8 = 9/5,              *)
(*     BURST_CHANCE 0.02 = 1/50, 0.5 MB per user = 1/2;                    *)
(*   - byte counts are integers, MB values are bytes over BYTES_PER_MB.    *)
(* The specifications share the variables:                                 *)
(*   Spec        the running process: timer ticks and status requests;     *)
(*   SpecBase    the noise-free part of computeUsers over elapsed times;   *)
(*   SpecMem     adjustMemory called repeatedly with one held load;        *)
(*   SpecJitter  adjustMemory called with loads that jitter;               *)
(*   SpecCfg     the process started with edited constants (lines 36-46);  *)
(*   SpecSlides  the slide relay of src/apps/workshop-slides/server.js;    *)
(*   SpecLoad    GET /load of src/apps/stress-app/server.js;               *)
(*   SpecStart   start() of src/apps/workshop-slides/server.js.            *)
(***************************************************************************)
EXTENDS Integers, Sequences, FiniteSets, TLC

VARIABLES
    clock,         \* Date.now(), in seconds since the process started
    currentUsers,  \* let currentUsers
    cpuBusy,       \* let cpuBusy
    memoryBlocks,  \* let memoryBlocks: sequence of buffers [length, fill]
    targetMemMB,   \* let targetMemMB
    stats,         \* let stats
    processAlive,  \* FALSE once an exception escaped a timer callback
    computed,      \* locals of the last computeUsers call
    alloc,         \* what the last adjustMemory call did
    lastStatus,    \* body of the last /api/status response (<<>> if none)
    config,        \* the constants of lines 36-46 the process runs with
    currentState,  \* workshop-slides: let currentState
    sockets,       \* workshop-slides: phase and handshake role of each socket
    emitted,       \* workshop-slides: 'slidechanged' payloads emitted to a socket
    relay,         \* workshop-slides: the last 'slidechanged' event handled
    cpuStressActive, \* stress-app: let cpuStressActive
    immediates,    \* stress-app: burn callbacks queued with setImmediate
    batch,         \* stress-app: callbacks left in the running check phase
    workersLeft,   \* stress-app: unresolved workers of each request's Promise.all
    burnClock,     \* stress-app: Date.now(), ms
    loadCount,     \* stress-app: GET /load requests handled so far
    clusterDomain, \* workshop-slides: let clusterDomain
    startPc,       \* workshop-slides: where start() is
    promise,       \* workshop-slides: the promise detectClusterDomain returned
    request,       \* workshop-slides: the https request and what it has emitted
    startEnv       \* workshop-slides: CLUSTER_DOMAIN as read at line 13

slideVars == <<currentState, sockets, emitted, relay>>

simVars == <<clock, currentUsers, cpuBusy, memoryBlocks, targetMemMB, stats,
             processAlive, computed, alloc, lastStatus, config>>

stressVars == <<cpuStressActive, immediates, batch, workersLeft, burnClock,
                loadCount>>

startVars == <<clusterDomain, startPc, promise, request, startEnv>>

vars == <<clock, currentUsers, cpuBusy, memoryBlocks, targetMemMB, stats,
          processAlive, computed, alloc, lastStatus, config, slideVars,
          stressVars, startVars>>

(***************************************************************************)
(* Bounds of the model                                                     *)
(***************************************************************************)
MaxTicks == 2        \* simulationTick calls explored in Spec
MaxCalls == 2        \* adjustMemory calls explored in SpecMem
NumCycles == 2       \* cycles of elapsed time explored in SpecBase
RandScale == 100     \* Math.random() is modelled as k / RandScale
JitterLow == 10      \* lowest target (MB) of the window explored in SpecJitter
NumSockets == 3      \* sockets that connect to the slide relay in SpecSlides
MaxSlide == 1        \* highest indexh a presenter sends in SpecSlides
MaxEvents == 2       \* 'slidechanged' events handled in SpecSlides
NumLoads == 2        \* GET /load requests handled in SpecLoad

(***************************************************************************)
(* Configuration (server.js 36-46)                                         *)
(***************************************************************************)
PEAK_MINUTES == 60
OFF_MINUTES == 60
RAMP_MINUTES == 5
CYCLE_MINUTES == PEAK_MINUTES + OFF_MINUTES + (RAMP_MINUTES * 2)
MAX_USERS == 80
MIN_USERS == 5
PEAK_BASE == 65
OFF_BASE == 10
TICK_INTERVAL == 2000
BURST_MULTIPLIER_NUM == 9     \* BURST_MULTIPLIER = 1.8 = 9 / 5
BURST_MULTIPLIER_DEN == 5
BURST_CHANCE_DEN == 50        \* BURST_CHANCE = 0.02 = 1 / 50
HYSTERESIS_MB == 2            \* the `+ 2` of adjustMemory
BYTES_PER_MB == 1024 * 1024

\* the constants as shipped, as one value
ShippedConfig ==
    [PEAK_MINUTES |-> PEAK_MINUTES, OFF_MINUTES |-> OFF_MINUTES,
     RAMP_MINUTES |-> RAMP_MINUTES, MAX_USERS |-> MAX_USERS,
     MIN_USERS |-> MIN_USERS, PEAK_BASE |-> PEAK_BASE, OFF_BASE |-> OFF_BASE]

cycleSec == CYCLE_MINUTES * 60
rampSec == RAMP_MINUTES * 60
peakSec == PEAK_MINUTES * 60
offSec == OFF_MINUTES * 60

(***************************************************************************)
(* Arithmetic                                                              *)
(***************************************************************************)
\* Math.round(n / d) for d > 0: halves go towards +Infinity
Round(n, d) == (2 * n + d) \div (2 * d)

\* Math.ceil(n / d) for d > 0
Ceil(n, d) == -((-n) \div d)

Max(a, b) == IF a > b THEN a ELSE b
Min(a, b) == IF a < b THEN a ELSE b

(***************************************************************************)
(* Environment draws                                                       *)
(***************************************************************************)
\* time that passes before the next timer firing: the 2 s interval, or
\* longer when the timer is late (setInterval does not make up lost time)
TickDeltas == {TICK_INTERVAL \div 1000, rampSec, rampSec + peakSec}

NoiseDraws == {0, 99}            \* Math.random() of line 93, over RandScale
BurstDraws == {1, 99}            \* Math.random() of line 98, over RandScale
FillDraws == {0, 255}            \* Math.floor(Math.random() * 256)
FailPoints == {2}                \* allocations done before Buffer.alloc throws
\* process.hrtime.bigint() difference (ns) and process.memoryUsage().rss
\* (bytes) as read in one tick
EnvDraws == {[cpuNs |-> 1200000, rss |-> 60 * BYTES_PER_MB + 524288],
             [cpuNs |-> 5500000, rss |-> 150 * BYTES_PER_MB]}

(***************************************************************************)
(* computeUsers (server.js 65-105)                                         *)
(***************************************************************************)
\* variant: the ramp starts from the peak level
rampUpBaseFromPeak(posInCycle) ==
    PEAK_BASE * rampSec + (PEAK_BASE - OFF_BASE) * posInCycle

\* line 79, times rampSec
rampUpBase(posInCycle) == OFF_BASE * rampSec + (PEAK_BASE - OFF_BASE) * posInCycle

\* variant: the plateau is not subtracted from the position
rampDownBaseNoPeak(posInCycle) ==
    PEAK_BASE * rampSec - (PEAK_BASE - OFF_BASE) * (posInCycle - rampSec)

\* variant: the progress is added, not subtracted
rampDownBaseRising(posInCycle) ==
    PEAK_BASE * rampSec + (PEAK_BASE - OFF_BASE) * (posInCycle - rampSec - peakSec)

\* lines 85-86, times rampSec
rampDownBase(posInCycle) ==
    PEAK_BASE * rampSec - (PEAK_BASE - OFF_BASE) * (posInCycle - rampSec - peakSec)

\* variant: the windows are closed on the right
ClassifyInclusive(posInCycle) ==
    IF posInCycle <= rampSec
    THEN [phase |-> "ramp-up", progress |-> posInCycle,
          base |-> rampUpBase(posInCycle)]
    ELSE IF posInCycle <= rampSec + peakSec
    THEN [phase |-> "peak-plateau", progress |-> 0,
          base |-> PEAK_BASE * rampSec]
    ELSE IF posInCycle <= rampSec + peakSec + rampSec
    THEN [phase |-> "ramp-down", progress |-> posInCycle - rampSec - peakSec,
          base |-> rampDownBase(posInCycle)]
    ELSE [phase |-> "off-plateau", progress |-> 0,
          base |-> OFF_BASE * rampSec]

\* the if-chain of lines 76-90: phase, progress (over rampSec), base (over rampSec)
Classify(posInCycle) ==
    IF posInCycle < rampSec
    THEN [phase |-> "ramp-up", progress |-> posInCycle,
          base |-> rampUpBase(posInCycle)]
    ELSE IF posInCycle < rampSec + peakSec
    THEN [phase |-> "peak-plateau", progress |-> 0,
          base |-> PEAK_BASE * rampSec]
    ELSE IF posInCycle < rampSec + peakSec + rampSec
    THEN [phase |-> "ramp-down", progress |-> posInCycle - rampSec - peakSec,
          base |-> rampDownBase(posInCycle)]
    ELSE [phase |-> "off-plateau", progress |-> 0,
          base |-> OFF_BASE * rampSec]

\* variant: the elapsed time is not reduced modulo the cycle
PosInCycleNoMod(now, startTime) == now - startTime

\* lines 66-72
PosInCycle(now, startTime) == (now - startTime) % cycleSec

\* variant: the lower end of the window is not tested
BurstWindowNoLower(posInCycle) == posInCycle < rampSec + peakSec

\* line 97: the window in which the burst draw is made
BurstWindow(posInCycle) ==
    posInCycle >= rampSec /\ posInCycle < rampSec + peakSec

\* line 98
BurstHit(r2) == r2 * BURST_CHANCE_DEN < RandScale

\* line 104: Math.max(MIN_USERS, Math.min(MAX_USERS * BURST_MULTIPLIER, v))
Clamp(v) ==
    Max(MIN_USERS,
        Min((MAX_USERS * BURST_MULTIPLIER_NUM) \div BURST_MULTIPLIER_DEN, v))

\* lines 93 and 104: Math.round(base * (0.88 + r1 * 0.24) * burst), where
\* burst = burstNum / BURST_MULTIPLIER_DEN
NoisyRound(base, r1, burstNum) ==
    Round(base * (22 * RandScale + 6 * r1) * burstNum,
          rampSec * 25 * RandScale * BURST_MULTIPLIER_DEN)

\* the whole function; r2 is used only inside the burst window
computeUsers(now, startTime, r1, r2) ==
    LET posInCycle == PosInCycle(now, startTime)
        c == Classify(posInCycle)
        hit == BurstWindow(posInCycle) /\ BurstHit(r2)
        burstNum == IF hit THEN BURST_MULTIPLIER_NUM ELSE BURST_MULTIPLIER_DEN
    IN  [users |-> Clamp(NoisyRound(c.base, r1, burstNum)),
         posInCycle |-> posInCycle,
         phase |-> c.phase,
         progress |-> c.progress,
         base |-> c.base,
         burstNum |-> burstNum,
         wroteLastBurst |-> hit]

(***************************************************************************)
(* doCpuWork (server.js 108-117)                                           *)
(***************************************************************************)
\* variant: cpuBusy is not lowered after the loop
doCpuWorkStaysBusy(users) == TRUE

\* cpuBusy is raised, the hash loop runs users * 8000 iterations, cpuBusy is
\* lowered; the value of cpuBusy when the function returns
doCpuWork(users) == FALSE

(***************************************************************************)
(* adjustMemory (server.js 120-141)                                        *)
(***************************************************************************)
\* Buffer.alloc(1024 * 1024, fill)
Block(fill) == [length |-> 1024 * 1024, fill |-> fill]

\* the sum of b.length over blocks[lo..hi], by halves
RECURSIVE SumRange(_, _, _)
SumRange(blocks, lo, hi) ==
    IF lo > hi THEN 0
    ELSE IF lo = hi THEN blocks[lo].length
    ELSE LET mid == (lo + hi) \div 2
         IN  SumRange(blocks, lo, mid) + SumRange(blocks, mid + 1, hi)

\* memoryBlocks.reduce((sum, b) => sum + b.length, 0)
SumLength(blocks) == SumRange(blocks, 1, Len(blocks))

\* variant: Math.floor instead of Math.round
TargetMBFloor(users) == users \div 2

\* line 122: Math.round(users * 0.5)
TargetMB(users) == Round(users, 2)

\* variant: growth waits until the pool is more than the margin below
GrowCondWithMargin(curBytes, target) ==
    curBytes < (target - HYSTERESIS_MB) * BYTES_PER_MB

\* line 125: currentMB < targetMemMB
GrowCond(curBytes, target) == curBytes < target * BYTES_PER_MB

\* variant: a margin of one block
ShrinkCondMarginOne(curBytes, target) == curBytes > (target + 1) * BYTES_PER_MB

\* variant: no margin
ShrinkCondNoMargin(curBytes, target) == curBytes > target * BYTES_PER_MB

\* line 134: currentMB > targetMemMB + 2
ShrinkCond(curBytes, target) == curBytes > (target + HYSTERESIS_MB) * BYTES_PER_MB

\* variant: the current size is not subtracted
GrowCountNoSubtract(curBytes, target) == target

\* line 127: Math.ceil(targetMemMB - currentMB)
GrowCount(curBytes, target) == Ceil(target * BYTES_PER_MB - curBytes, BYTES_PER_MB)

\* Buffer.alloc calls the growth loop of lines 128-133 is going to make, 0 when
\* the branch of line 125 is not taken
GrowNeeded(users, blocks) ==
    LET target == TargetMB(users)
        curBytes == SumLength(blocks)
    IN  IF GrowCond(curBytes, target) THEN GrowCount(curBytes, target) ELSE 0

\* variant: shrinking stops above the margin
ShrinkExcessToMargin(curBytes, target) ==
    Ceil(curBytes - (target + HYSTERESIS_MB + 1) * BYTES_PER_MB, BYTES_PER_MB)

\* line 136: Math.ceil(currentMB - targetMemMB)
ShrinkExcess(curBytes, target) == Ceil(curBytes - target * BYTES_PER_MB, BYTES_PER_MB)

\* variant: memoryBlocks.shift() instead of pop()
PopBlocksFromFront(blocks, pops) == SubSeq(blocks, pops + 1, Len(blocks))

\* lines 137-139: memoryBlocks.pop(), pops times
PopBlocks(blocks, pops) == SubSeq(blocks, 1, Len(blocks) - pops)

\* variant: no try/catch around Buffer.alloc
allocErrorNotCaught == FALSE

\* line 132: catch (e) { break; } -- the allocation error is handled here
allocErrorCaught == TRUE

\* how many Buffer.alloc calls of a growth loop succeed: all `needed`, or
\* fewer when one throws
AllocOutcomes(needed) == {needed} \cup {k \in FailPoints : k < needed}

\* the whole function.  okCount: allocations that succeed; fill: the byte the
\* buffers of this call are filled with (one draw stands for the per-buffer
\* draws of line 130)
adjustMemory(users, blocks, okCount, fill) ==
    LET target == TargetMB(users)
        curBytes == SumLength(blocks)
    IN  IF GrowCond(curBytes, target)
        THEN LET needed == GrowCount(curBytes, target)
                 done == Min(okCount, needed)
                 failed == okCount < needed
             IN  [targetMemMB |-> target,
                  memoryBlocks |-> blocks \o [i \in 1..done |-> Block(fill)],
                  attempts |-> IF failed THEN done + 1 ELSE needed,
                  popped |-> 0,
                  failed |-> failed,
                  threw |-> failed /\ ~allocErrorCaught]
        ELSE IF ShrinkCond(curBytes, target)
        THEN LET excess == ShrinkExcess(curBytes, target)
                 pops == Min(excess, Len(blocks))
             IN  [targetMemMB |-> target,
                  memoryBlocks |-> PopBlocks(blocks, pops),
                  attempts |-> 0,
                  popped |-> pops,
                  failed |-> FALSE,
                  threw |-> FALSE]
        ELSE [targetMemMB |-> target,
              memoryBlocks |-> blocks,
              attempts |-> 0,
              popped |-> 0,
              failed |-> FALSE,
              threw |-> FALSE]

(***************************************************************************)
(* State (server.js 49-61)                                                 *)
(***************************************************************************)
NoComputed ==
    [posInCycle |-> 0, phase |-> "none", progress |-> 0, base |-> 0,
     burstNum |-> BURST_MULTIPLIER_DEN, wroteLastBurst |-> FALSE]

NoAlloc == [calls |-> 0, attempts |-> 0, popped |-> 0, failed |-> FALSE]

\* variant: the variable starts one below the baseline
initialUsersBelowMin == MIN_USERS - 1

\* line 49: let currentUsers = MIN_USERS
initialUsers == MIN_USERS

\* workshop-slides/server.js line 108
InitialSlide == [indexh |-> 0, indexv |-> 0, indexf |-> -1]

SocketIds == 1..NumSockets

\* socket.handshake.query.role: 'presenter', 'client', or anything else
Roles == {"presenter", "client", "other"}

\* the relay before any socket has connected
SlidesStarted ==
    /\ currentState = InitialSlide
    /\ sockets = [s \in SocketIds |-> [phase |-> "pending", role |-> "other"]]
    /\ emitted = [s \in SocketIds |-> <<>>]
    /\ relay = [events |-> 0, role |-> "other", data |-> InitialSlide,
                accepted |-> <<>>]

LoadIds == 1..NumLoads

\* stress-app/server.js line 39, and an idle event loop
StressStarted ==
    /\ cpuStressActive = FALSE
    /\ immediates = <<>>
    /\ batch = 0
    /\ workersLeft = [r \in LoadIds |-> 0]
    /\ burnClock = 0
    /\ loadCount = 0

\* the promise before it is settled, and no request
Pending == [state |-> "pending", value |-> ""]
NoRequest == [state |-> "none", body |-> "none", fired |-> {}]

\* workshop-slides/server.js before line 13 has run
StartupStarted ==
    /\ clusterDomain = ""
    /\ startPc = "loading"
    /\ promise = Pending
    /\ request = NoRequest
    /\ startEnv = ""

\* lastBurst: <<>> is null, <<t>> the timestamp t; peakCpuMs is in ns,
\* peakMemMB in bytes
StartedWith(cfg, now, users, blocks) ==
    /\ config = cfg
    /\ SlidesStarted
    /\ StressStarted
    /\ StartupStarted
    /\ clock = now
    /\ currentUsers = users
    /\ cpuBusy = FALSE
    /\ memoryBlocks = blocks
    /\ targetMemMB = 0
    /\ stats = [totalRequests |-> 0, tickCount |-> 0, startTime |-> 0,
                lastBurst |-> <<>>, peakUsers |-> 0, peakCpuMs |-> 0,
                peakMemMB |-> 0]
    /\ processAlive = TRUE
    /\ computed = NoComputed
    /\ alloc = NoAlloc
    /\ lastStatus = <<>>

Started(now, users, blocks) == StartedWith(ShippedConfig, now, users, blocks)

Init == Started(0, initialUsers, <<>>)

(***************************************************************************)
(* simulationTick (server.js 144-163), run by setInterval (line 166)       *)
(***************************************************************************)
\* variant: the peaks are assigned without the comparison
TrackPeaksNoIf(s, users, cpuNs, rss) ==
    [s EXCEPT !.peakUsers = users, !.peakCpuMs = cpuNs, !.peakMemMB = rss]

\* variant: the memory peak is the last sample
TrackPeaksMemLast(s, users, cpuNs, rss) ==
    [s EXCEPT !.peakUsers = IF users > @ THEN users ELSE @,
              !.peakCpuMs = IF cpuNs > @ THEN cpuNs ELSE @,
              !.peakMemMB = rss]

\* lines 158-162: the statistics after the peak tracking
TrackPeaks(s, users, cpuNs, rss) ==
    [s EXCEPT !.peakUsers = IF users > @ THEN users ELSE @,
              !.peakCpuMs = IF cpuNs > @ THEN cpuNs ELSE @,
              !.peakMemMB = IF rss > @ THEN rss ELSE @]

\* variant: a tick counts one request, not one per user
CountTickOneRequest(s, cu, now) ==
    [s EXCEPT !.lastBurst = IF cu.wroteLastBurst THEN <<now>> ELSE @,
              !.tickCount = @ + 1,
              !.totalRequests = @ + 1]

\* variant: lastBurst is cleared by a tick without a burst
CountTickClearsBurst(s, cu, now) ==
    [s EXCEPT !.lastBurst = IF cu.wroteLastBurst THEN <<now>> ELSE <<>>,
              !.tickCount = @ + 1,
              !.totalRequests = @ + cu.users]

\* lines 145-147 (and line 100 inside computeUsers)
CountTick(s, cu, now) ==
    [s EXCEPT !.lastBurst = IF cu.wroteLastBurst THEN <<now>> ELSE @,
              !.tickCount = @ + 1,
              !.totalRequests = @ + cu.users]

\* variant: the shadow work is given the load of the tick before
ShadowLoadStale(previous, fresh) == previous

\* lines 145, 151 and 154: currentUsers is assigned the fresh value first,
\* then doCpuWork and adjustMemory read it
ShadowLoad(previous, fresh) == fresh

simulationTick ==
    /\ processAlive
    /\ stats.tickCount < MaxTicks
    /\ \E dt \in TickDeltas, r1 \in NoiseDraws, env \in EnvDraws :
        LET now == clock + dt
            inWindow == BurstWindow(PosInCycle(now, stats.startTime))
        IN  \E r2 \in (IF inWindow THEN BurstDraws ELSE {0}) :
            LET cu == computeUsers(now, stats.startTime, r1, r2)
                load == ShadowLoad(currentUsers, cu.users)
                needed == GrowNeeded(load, memoryBlocks)
            IN  \E okCount \in AllocOutcomes(needed),
                   fill \in (IF needed > 0 THEN FillDraws ELSE {0}) :
                LET am == adjustMemory(load, memoryBlocks, okCount, fill)
                IN  /\ clock' = now
                    /\ currentUsers' = cu.users
                    /\ cpuBusy' = doCpuWork(load)
                    /\ memoryBlocks' = am.memoryBlocks
                    /\ targetMemMB' = am.targetMemMB
                    /\ computed' = [posInCycle |-> cu.posInCycle, phase |-> cu.phase,
                                    progress |-> cu.progress, base |-> cu.base,
                                    burstNum |-> cu.burstNum,
                                    wroteLastBurst |-> cu.wroteLastBurst]
                    /\ alloc' = [calls |-> alloc.calls + 1, attempts |-> am.attempts,
                                 popped |-> am.popped, failed |-> am.failed]
                    /\ IF am.threw
                       THEN /\ stats' = CountTick(stats, cu, now)
                            /\ processAlive' = FALSE
                       ELSE /\ stats' = TrackPeaks(CountTick(stats, cu, now),
                                                   cu.users, env.cpuNs, env.rss)
                            /\ processAlive' = TRUE
                    /\ UNCHANGED lastStatus
                    /\ UNCHANGED <<config, slideVars, stressVars, startVars>>

(***************************************************************************)
(* GET /api/status (server.js 176-214)                                     *)
(***************************************************************************)
\* variant: the held memory is reported from the target, not from the pool
StatusBodyHeldFromTarget ==
    LET uptimeSec == clock - stats.startTime
    IN  [uptime |-> <<uptimeSec \div 3600, (uptimeSec % 3600) \div 60>>,
         uptimeSeconds |-> uptimeSec,
         currentUsers |-> currentUsers,
         targetMemMB |-> targetMemMB,
         heldBlocksMB |-> targetMemMB,
         totalRequests |-> stats.totalRequests,
         tickCount |-> stats.tickCount,
         peakUsers |-> stats.peakUsers,
         peakMemMB |-> Round(stats.peakMemMB, BYTES_PER_MB),
         lastBurst |-> stats.lastBurst]

\* the fields of the response that come from the simulator; the
\* process.memoryUsage() readings (rssMB, heapUsedMB) and the configuration
\* constants are left out
StatusBody ==
    LET uptimeSec == clock - stats.startTime
    IN  [uptime |-> <<uptimeSec \div 3600, (uptimeSec % 3600) \div 60>>,
         uptimeSeconds |-> uptimeSec,
         currentUsers |-> currentUsers,
         targetMemMB |-> targetMemMB,
         heldBlocksMB |-> Round(SumLength(memoryBlocks), BYTES_PER_MB),
         totalRequests |-> stats.totalRequests,
         tickCount |-> stats.tickCount,
         peakUsers |-> stats.peakUsers,
         peakMemMB |-> Round(stats.peakMemMB, BYTES_PER_MB),
         lastBurst |-> stats.lastBurst]

\* variant: the handler finishes a shrink the tick left undone
StatusDrainsPool ==
    /\ processAlive
    /\ lastStatus' = <<StatusBody>>
    /\ memoryBlocks' = IF Len(memoryBlocks) > targetMemMB
                       THEN PopBlocks(memoryBlocks, 1) ELSE memoryBlocks
    /\ UNCHANGED <<clock, currentUsers, cpuBusy, targetMemMB, stats,
                   processAlive, computed, alloc>>
    /\ UNCHANGED <<config, slideVars, stressVars, startVars>>

\* variant: a status request is counted as a simulated request
StatusCountsRequest ==
    /\ processAlive
    /\ lastStatus' = <<StatusBody>>
    /\ stats' = [stats EXCEPT !.totalRequests = @ + 1]
    /\ UNCHANGED <<clock, currentUsers, cpuBusy, memoryBlocks, targetMemMB,
                   processAlive, computed, alloc>>
    /\ UNCHANGED <<config, slideVars, stressVars, startVars>>

Status ==
    /\ processAlive
    /\ lastStatus' = <<StatusBody>>
    /\ UNCHANGED <<clock, currentUsers, cpuBusy, memoryBlocks, targetMemMB,
                   stats, processAlive, computed, alloc>>
    /\ UNCHANGED <<config, slideVars, stressVars, startVars>>

Next == simulationTick \/ Status

Spec == Init /\ [][Next]_vars

(***************************************************************************)
(* SpecBase: the noise-free part of computeUsers (lines 66-90) evaluated   *)
(* at every whole second of NumCycles cycles                               *)
(***************************************************************************)
BaseLocals(now) ==
    LET posInCycle == PosInCycle(now, stats.startTime)
        c == Classify(posInCycle)
    IN  [NoComputed EXCEPT !.posInCycle = posInCycle, !.phase = c.phase,
                           !.progress = c.progress, !.base = c.base]

InitBase == \E t \in 0..(cycleSec - 1) : Started(t, initialUsers, <<>>)

\* evaluate at the current time
BaseEvaluate ==
    /\ computed.phase = "none"
    /\ computed' = BaseLocals(clock)
    /\ UNCHANGED <<clock, currentUsers, cpuBusy, memoryBlocks, targetMemMB,
                   stats, processAlive, alloc, lastStatus>>
    /\ UNCHANGED <<config, slideVars, stressVars, startVars>>

\* evaluate one second later
BaseNextSecond ==
    /\ clock + 1 <= NumCycles * cycleSec
    /\ clock' = clock + 1
    /\ computed' = BaseLocals(clock + 1)
    /\ UNCHANGED <<currentUsers, cpuBusy, memoryBlocks, targetMemMB,
                   stats, processAlive, alloc, lastStatus>>
    /\ UNCHANGED <<config, slideVars, stressVars, startVars>>

\* evaluate one cycle later
BaseNextCycle ==
    /\ clock + cycleSec <= NumCycles * cycleSec
    /\ clock' = clock + cycleSec
    /\ computed' = BaseLocals(clock + cycleSec)
    /\ UNCHANGED <<currentUsers, cpuBusy, memoryBlocks, targetMemMB,
                   stats, processAlive, alloc, lastStatus>>
    /\ UNCHANGED <<config, slideVars, stressVars, startVars>>

NextBase == BaseEvaluate \/ BaseNextSecond \/ BaseNextCycle

SpecBase == InitBase /\ [][NextBase]_vars

(***************************************************************************)
(* SpecMem: adjustMemory (lines 120-141) called up to MaxCalls times with  *)
(* one load, from every pool size a tick can have left behind              *)
(***************************************************************************)
MaxLoad == (MAX_USERS * BURST_MULTIPLIER_NUM) \div BURST_MULTIPLIER_DEN

InitMem ==
    \E users \in MIN_USERS..MaxLoad, size \in 0..TargetMB(MaxLoad) :
        Started(0, users, [i \in 1..size |-> Block(i)])

MemAdjust ==
    /\ processAlive
    /\ alloc.calls < MaxCalls
    /\ LET needed == GrowNeeded(currentUsers, memoryBlocks)
       IN  \E okCount \in AllocOutcomes(needed),
              fill \in (IF needed > 0 THEN FillDraws ELSE {0}) :
           LET am == adjustMemory(currentUsers, memoryBlocks, okCount, fill)
           IN  /\ memoryBlocks' = am.memoryBlocks
               /\ targetMemMB' = am.targetMemMB
               /\ alloc' = [calls |-> alloc.calls + 1, attempts |-> am.attempts,
                            popped |-> am.popped, failed |-> am.failed]
               /\ processAlive' = ~am.threw
    /\ UNCHANGED <<clock, currentUsers, cpuBusy, stats, computed, lastStatus>>
    /\ UNCHANGED <<config, slideVars, stressVars, startVars>>

NextMem == MemAdjust

SpecMem == InitMem /\ [][NextMem]_vars

(***************************************************************************)
(* SpecJitter: adjustMemory (lines 120-141) called with loads that change  *)
(* from call to call while their targets stay within a window as wide as   *)
(* the margin of line 134, from every pool size up to the lowest target    *)
(* plus the margin                                                         *)
(***************************************************************************)
JitterCalls == MaxCalls + 1

JitterTargets == JitterLow..(JitterLow + HYSTERESIS_MB)

JitterLoads == {u \in MIN_USERS..MaxLoad : TargetMB(u) \in JitterTargets}

InitJitter ==
    \E users \in JitterLoads, size \in 0..(JitterLow + HYSTERESIS_MB) :
        Started(0, users, [i \in 1..size |-> Block(i)])

JitterAdjust ==
    /\ processAlive
    /\ alloc.calls < JitterCalls
    /\ \E users \in JitterLoads :
         LET needed == GrowNeeded(users, memoryBlocks)
         IN  \E okCount \in AllocOutcomes(needed),
                fill \in (IF needed > 0 THEN FillDraws ELSE {0}) :
             LET am == adjustMemory(users, memoryBlocks, okCount, fill)
             IN  /\ currentUsers' = users
                 /\ memoryBlocks' = am.memoryBlocks
                 /\ targetMemMB' = am.targetMemMB
                 /\ alloc' = [calls |-> alloc.calls + 1, attempts |-> am.attempts,
                              popped |-> am.popped, failed |-> am.failed]
                 /\ processAlive' = ~am.threw
    /\ UNCHANGED <<clock, cpuBusy, stats, computed, lastStatus>>
    /\ UNCHANGED <<config, slideVars, stressVars, startVars>>

NextJitter == JitterAdjust

SpecJitter == InitJitter /\ [][NextJitter]_vars

(***************************************************************************)
(* SpecCfg: the process started with the constants of lines 36-46 edited.  *)
(* Nothing between the constants and setInterval (line 166) reads them, so *)
(* the timer is armed whatever their values.                               *)
(***************************************************************************)
\* values the constants are edited to; the cycle stays longer than 0 s
Configs ==
    {ShippedConfig,
     [ShippedConfig EXCEPT !.RAMP_MINUTES = 0],
     [ShippedConfig EXCEPT !.PEAK_MINUTES = 0],
     [ShippedConfig EXCEPT !.MAX_USERS = 0],
     [ShippedConfig EXCEPT !.MIN_USERS = ShippedConfig.MAX_USERS + 20]}

\* line 97 with the constants of cfg
BurstWindowWith(cfg, posInCycle) ==
    /\ posInCycle >= cfg.RAMP_MINUTES * 60
    /\ posInCycle < cfg.RAMP_MINUTES * 60 + cfg.PEAK_MINUTES * 60

\* lines 66-72 with the constants of cfg
PosInCycleWith(cfg, now, startTime) ==
    (now - startTime) % ((cfg.PEAK_MINUTES + cfg.OFF_MINUTES
                          + (cfg.RAMP_MINUTES * 2)) * 60)

\* computeUsers (lines 65-105) with the constants of cfg.  base is kept over
\* den: over the ramp length when there is a ramp, over 1 otherwise (the two
\* ramp branches are then never taken)
computeUsersWith(cfg, now, startTime, r1, r2) ==
    LET rampS == cfg.RAMP_MINUTES * 60
        peakS == cfg.PEAK_MINUTES * 60
        den == IF rampS > 0 THEN rampS ELSE 1
        posInCycle == PosInCycleWith(cfg, now, startTime)
        phase == IF posInCycle < rampS THEN "ramp-up"
                 ELSE IF posInCycle < rampS + peakS THEN "peak-plateau"
                 ELSE IF posInCycle < rampS + peakS + rampS THEN "ramp-down"
                 ELSE "off-plateau"
        progress == IF phase = "ramp-up" THEN posInCycle
                    ELSE IF phase = "ramp-down" THEN posInCycle - rampS - peakS
                    ELSE 0
        base == IF phase = "ramp-up"
                THEN cfg.OFF_BASE * den + (cfg.PEAK_BASE - cfg.OFF_BASE) * progress
                ELSE IF phase = "peak-plateau" THEN cfg.PEAK_BASE * den
                ELSE IF phase = "ramp-down"
                THEN cfg.PEAK_BASE * den - (cfg.PEAK_BASE - cfg.OFF_BASE) * progress
                ELSE cfg.OFF_BASE * den
        hit == BurstWindowWith(cfg, posInCycle) /\ BurstHit(r2)
        burstNum == IF hit THEN BURST_MULTIPLIER_NUM ELSE BURST_MULTIPLIER_DEN
        rounded == Round(base * (22 * RandScale + 6 * r1) * burstNum,
                         den * 25 * RandScale * BURST_MULTIPLIER_DEN)
    IN  [users |-> Max(cfg.MIN_USERS,
                       Min((cfg.MAX_USERS * BURST_MULTIPLIER_NUM)
                               \div BURST_MULTIPLIER_DEN, rounded)),
         posInCycle |-> posInCycle,
         phase |-> phase,
         progress |-> progress,
         base |-> base,
         burstNum |-> burstNum,
         wroteLastBurst |-> hit]

\* lines 36-61: the state the process starts in with each configuration
InitCfg ==
    \E cfg \in Configs : StartedWith(cfg, 0, cfg.MIN_USERS, <<>>)

\* simulationTick (lines 144-163) with the constants of config
cfgTick ==
    /\ processAlive
    /\ stats.tickCount < MaxTicks
    /\ \E dt \in TickDeltas, r1 \in NoiseDraws, env \in EnvDraws :
        LET now == clock + dt
            inWindow == BurstWindowWith(config,
                            PosInCycleWith(config, now, stats.startTime))
        IN  \E r2 \in (IF inWindow THEN BurstDraws ELSE {0}) :
            LET cu == computeUsersWith(config, now, stats.startTime, r1, r2)
                load == ShadowLoad(currentUsers, cu.users)
                needed == GrowNeeded(load, memoryBlocks)
            IN  \E okCount \in AllocOutcomes(needed),
                   fill \in (IF needed > 0 THEN FillDraws ELSE {0}) :
                LET am == adjustMemory(load, memoryBlocks, okCount, fill)
                IN  /\ clock' = now
                    /\ currentUsers' = cu.users
                    /\ cpuBusy' = doCpuWork(load)
                    /\ memoryBlocks' = am.memoryBlocks
                    /\ targetMemMB' = am.targetMemMB
                    /\ computed' = [posInCycle |-> cu.posInCycle, phase |-> cu.phase,
                                    progress |-> cu.progress, base |-> cu.base,
                                    burstNum |-> cu.burstNum,
                                    wroteLastBurst |-> cu.wroteLastBurst]
                    /\ alloc' = [calls |-> alloc.calls + 1, attempts |-> am.attempts,
                                 popped |-> am.popped, failed |-> am.failed]
                    /\ IF am.threw
                       THEN /\ stats' = CountTick(stats, cu, now)
                            /\ processAlive' = FALSE
                       ELSE /\ stats' = TrackPeaks(CountTick(stats, cu, now),
                                                   cu.users, env.cpuNs, env.rss)
                            /\ processAlive' = TRUE
                    /\ UNCHANGED lastStatus
                    /\ UNCHANGED <<config, slideVars, stressVars, startVars>>

NextCfg == cfgTick

SpecCfg == InitCfg /\ [][NextCfg]_vars

(***************************************************************************)
(* SpecSlides: the slide relay (src/apps/workshop-slides/server.js         *)
(* 108-130).  Each handler is one action; emitted[s] is what the server    *)
(* has emitted to socket s, in order.                                      *)
(***************************************************************************)
\* payloads of a 'slidechanged' event
SlideStates == {[indexh |-> h, indexv |-> 0, indexf |-> -1] : h \in 0..MaxSlide}

Connected(s) == sockets[s].phase = "connected"

\* variant: a new client is sent the state the server started with
GreetingInitial(role, cur) == IF role = "client" THEN <<InitialSlide>> ELSE <<>>

\* lines 115-117: what a socket is sent when it connects
Greeting(role, cur) == IF role = "client" THEN <<cur>> ELSE <<>>

\* variant: the role of the sender is not tested
AcceptsAnyRole(role) == TRUE

\* line 121: role === 'presenter'
Accepts(role) == role = "presenter"

\* line 123: socket.broadcast.emit reaches every connected socket but the
\* sender
Broadcast(em, from, data) ==
    [s \in SocketIds |->
        IF Connected(s) /\ s # from THEN Append(em[s], data) ELSE em[s]]

\* io.on('connection'), lines 110-117; sockets are numbered in the order in
\* which they connect
Connect(s, role) ==
    /\ sockets[s].phase = "pending"
    /\ \A t \in SocketIds : t < s => sockets[t].phase # "pending"
    /\ sockets' = [sockets EXCEPT ![s] = [phase |-> "connected", role |-> role]]
    /\ emitted' = [emitted EXCEPT ![s] = Greeting(role, currentState)]
    /\ UNCHANGED <<currentState, relay>>
    /\ UNCHANGED <<simVars, stressVars, startVars>>

\* socket.on('slidechanged'), lines 120-125
SlideChanged(s, data) ==
    /\ Connected(s)
    /\ relay.events < MaxEvents
    /\ relay' = [events |-> relay.events + 1, role |-> sockets[s].role,
                 data |-> data,
                 accepted |-> IF sockets[s].role = "presenter"
                              THEN <<data>> ELSE relay.accepted]
    /\ IF Accepts(sockets[s].role)
       THEN /\ currentState' = data
            /\ emitted' = Broadcast(emitted, s, data)
       ELSE UNCHANGED <<currentState, emitted>>
    /\ UNCHANGED sockets
    /\ UNCHANGED <<simVars, stressVars, startVars>>

\* socket.on('disconnect'), lines 127-129: the handler only logs; the socket
\* and what was sent to it are gone
Disconnect(s) ==
    /\ Connected(s)
    /\ sockets' = [sockets EXCEPT ![s] = [phase |-> "closed", role |-> "other"]]
    /\ emitted' = [emitted EXCEPT ![s] = <<>>]
    /\ UNCHANGED <<currentState, relay>>
    /\ UNCHANGED <<simVars, stressVars, startVars>>

NextSlides ==
    \/ \E s \in SocketIds, role \in Roles : Connect(s, role)
    \/ \E s \in SocketIds, data \in SlideStates : SlideChanged(s, data)
    \/ \E s \in SocketIds : Disconnect(s)

SpecSlides == Init /\ [][NextSlides]_vars

(***************************************************************************)
(* SpecLoad: GET /load (src/apps/stress-app/server.js 448-481).  The       *)
(* handler and each setImmediate callback are one action.  Callbacks run   *)
(* in the order they were queued; a request is handled between two check   *)
(* phases of the event loop.  The microtasks a callback leaves (the        *)
(* Promise.all continuation) run before the next callback and are part of  *)
(* its action.                                                             *)
(***************************************************************************)
BURN_MS == 10                      \* line 463: Date.now() + 10
MS_PER_SECOND == 1000              \* line 456: duration * 1000

\* req.query.duration and req.query.intensity after lines 449-450
LoadDurations == {-1, 1}
LoadIntensities == {1, 2}

\* burn() of lines 459-469 called at time now for a worker that ends at end:
\* TRUE when it resolves the worker's promise
BurnDone(now, end) == now >= end

\* the for loop of lines 455-471 from worker t on: each worker's end is read
\* from the clock, then burn() runs once.  Returns the burn callbacks
\* queued, the workers still unresolved and the clock.
RECURSIVE StartWorkers(_, _, _, _, _)
StartWorkers(r, t, intensity, duration, st) ==
    IF t >= intensity THEN st
    ELSE LET end == st.now + duration * MS_PER_SECOND
         IN  IF BurnDone(st.now, end)
             THEN StartWorkers(r, t + 1, intensity, duration, st)
             ELSE StartWorkers(r, t + 1, intensity, duration,
                      [queued |-> Append(st.queued, [req |-> r, end |-> end]),
                       left |-> st.left + 1,
                       now |-> st.now + BURN_MS])

\* lines 475-478: Promise.all(workers).then(() => cpuStressActive = false),
\* run once the request's last worker has resolved
FlagAfterAll(left, flag) == IF left = 0 THEN FALSE ELSE flag

\* app.get('/load'), lines 448-481; the requests are numbered as they come
Load(duration, intensity) ==
    /\ batch = 0
    /\ loadCount < NumLoads
    /\ loadCount' = loadCount + 1
    /\ LET r == loadCount + 1
           st == StartWorkers(r, 0, intensity, duration,
                      [queued |-> immediates, left |-> 0, now |-> burnClock])
       IN  /\ immediates' = st.queued
           /\ workersLeft' = [workersLeft EXCEPT ![r] = st.left]
           /\ burnClock' = st.now
           /\ cpuStressActive' = FlagAfterAll(st.left, TRUE)
    /\ UNCHANGED batch
    /\ UNCHANGED <<simVars, slideVars, startVars>>

\* the setImmediate callback at the head of the queue: burn(), lines 459-469
Burn ==
    /\ immediates # <<>>
    /\ LET w == Head(immediates)
           rest == Tail(immediates)
       IN  /\ batch' = (IF batch = 0 THEN Len(immediates) ELSE batch) - 1
           /\ IF BurnDone(burnClock, w.end)
              THEN /\ immediates' = rest
                   /\ workersLeft' = [workersLeft EXCEPT ![w.req] = @ - 1]
                   /\ cpuStressActive' =
                         FlagAfterAll(workersLeft[w.req] - 1, cpuStressActive)
                   /\ UNCHANGED burnClock
              ELSE /\ immediates' = Append(rest, w)
                   /\ burnClock' = burnClock + BURN_MS
                   /\ UNCHANGED <<workersLeft, cpuStressActive>>
    /\ UNCHANGED loadCount
    /\ UNCHANGED <<simVars, slideVars, startVars>>

NextLoad ==
    \/ \E duration \in LoadDurations, intensity \in LoadIntensities :
          Load(duration, intensity)
    \/ Burn

SpecLoad == Init /\ [][NextLoad]_vars

(***************************************************************************)
(* SpecStart: start() and detectClusterDomain                              *)
(* (src/apps/workshop-slides/server.js 13-81, 132-145).  The synchronous   *)
(* part of each function and each callback of the request are one action.  *)
(***************************************************************************)
\* process.env.CLUSTER_DOMAIN: unset or set
EnvDomains == {"", "apps.env.example"}

\* the service-account token file: unreadable, empty, or a token
Tokens == {"unreadable", "", "token"}

\* what the API server answers: an ingress with spec.domain, an ingress
\* without one, the JSON text null, or something JSON.parse rejects
Bodies == {"domain", "no-domain", "null", "unparsable"}
DetectedDomain == "apps.cluster.example"

RequestEvents == {"end", "error", "timeout"}

\* lines 18-24: the token, null when the file cannot be read
ReadToken(file) == IF file = "unreadable" THEN "" ELSE file

\* a promise settles once: later resolve calls do nothing
Settle(p, outcome) == IF p.state = "pending" THEN outcome ELSE p

Resolved(v) == [state |-> "resolved", value |-> v]

\* lines 54-65: the handler of the response's 'end'
EndOutcome(body, kept) ==
    IF body = "domain" THEN Resolved(DetectedDomain) ELSE Resolved(kept)

\* variant: the error is passed on as a rejection
ErrorOutcomeRejects(kept) == [state |-> "rejected", value |-> kept]

\* lines 68-71: the handler of the request's 'error'
ErrorOutcome(kept) == Resolved(kept)

\* lines 73-76: the handler of the request's 'timeout', after req.destroy()
TimeoutOutcome(kept) == Resolved(kept)

\* line 13
LoadModule(envDomain) ==
    /\ startPc = "loading"
    /\ clusterDomain' = envDomain
    /\ startEnv' = envDomain
    /\ startPc' = "starting"
    /\ UNCHANGED <<promise, request>>
    /\ UNCHANGED <<simVars, slideVars, stressVars>>

\* start() up to its await (line 133): detectClusterDomain, lines 15-79
Detect(file, body) ==
    /\ startPc = "starting"
    /\ startPc' = "awaiting"
    /\ IF ReadToken(file) = ""
       THEN /\ promise' = Settle(promise, Resolved(clusterDomain))
            /\ UNCHANGED request
       ELSE /\ request' = [state |-> "sent", body |-> body, fired |-> {}]
            /\ UNCHANGED promise
    /\ UNCHANGED <<clusterDomain, startEnv>>
    /\ UNCHANGED <<simVars, slideVars, stressVars>>

\* one callback of the request: the response's 'end' (lines 54-65), the
\* request's 'error' (68-71) or its 'timeout' (73-76); each at most once,
\* and no response ends after the request was destroyed
RequestEvent(e) ==
    /\ request.state \in {"sent", "destroyed"}
    /\ e \notin request.fired
    /\ e = "end" => request.state = "sent"
    /\ request' = [request EXCEPT !.fired = @ \cup {e},
                                  !.state = IF e = "timeout" THEN "destroyed" ELSE @]
    /\ promise' = Settle(promise,
                     IF e = "end" THEN EndOutcome(request.body, clusterDomain)
                     ELSE IF e = "error" THEN ErrorOutcome(clusterDomain)
                     ELSE TimeoutOutcome(clusterDomain))
    /\ UNCHANGED <<clusterDomain, startPc, startEnv>>
    /\ UNCHANGED <<simVars, slideVars, stressVars>>

\* start() after its await, lines 133-142; a rejection would leave start()
\* before server.listen
Resume ==
    /\ startPc = "awaiting"
    /\ promise.state # "pending"
    /\ IF promise.state = "resolved"
       THEN /\ clusterDomain' = IF promise.value # "" THEN promise.value
                                ELSE clusterDomain
            /\ startPc' = "listening"
       ELSE /\ startPc' = "failed"
            /\ UNCHANGED clusterDomain
    /\ UNCHANGED <<promise, request, startEnv>>
    /\ UNCHANGED <<simVars, slideVars, stressVars>>

StartSteps == (\E d \in EnvDomains : LoadModule(d))
                  \/ (\E f \in Tokens, b \in Bodies : Detect(f, b))
                  \/ Resume

AnyRequestEvent == \E e \in RequestEvents : RequestEvent(e)

NextStart == StartSteps \/ AnyRequestEvent

\* start() runs when it can; a request that was sent emits a callback (the
\* timeout of line 48 at the latest)
SpecStart ==
    Init /\ [][NextStart]_vars /\ WF_vars(StartSteps) /\ WF_vars(AnyRequestEvent)

(***************************************************************************)
(* Properties                                                              *)
(***************************************************************************)
TickStep == stats'.tickCount = stats.tickCount + 1
AdjustStep == alloc'.calls = alloc.calls + 1
PoolBytes == SumLength(memoryBlocks)
Abs(x) == IF x < 0 THEN -x ELSE x

\* C1: in the initial state and after any number of ticks,
\* MIN_USERS <= currentUsers <= MAX_USERS * BURST_MULTIPLIER (5 and 144).
C1_UsersWithinBounds ==
    /\ MIN_USERS <= currentUsers
    /\ currentUsers * BURST_MULTIPLIER_DEN <= MAX_USERS * BURST_MULTIPLIER_NUM
    /\ currentUsers \in 5..144

\* a burst tick has produced a value above MAX_USERS
C1_Witness ==
    /\ stats.tickCount >= 1
    /\ computed.burstNum = BURST_MULTIPLIER_NUM
    /\ currentUsers > MAX_USERS

\* C2: a multiplier above 1 is applied, and lastBurst is written, only when
\* the position is classified as peak-plateau, i.e. lies in
\* [rampSec, rampSec + peakSec); in the other phases the multiplier is 1 and
\* lastBurst keeps its value.
C2_BurstOnlyInPeak ==
    [][(computed'.burstNum * 1 > BURST_MULTIPLIER_DEN \/ stats'.lastBurst # stats.lastBurst)
        => /\ computed'.phase = "peak-plateau"
           /\ 300 <= computed'.posInCycle
           /\ computed'.posInCycle < 300 + 3600]_vars

\* a burst has been applied and recorded in this tick
C2_Witness ==
    /\ computed.phase = "peak-plateau"
    /\ computed.burstNum = BURST_MULTIPLIER_NUM
    /\ stats.lastBurst = <<clock>>

\* C3: with one load held over the calls, a call in which no allocation
\* fails leaves the pool between target and target + 2 MB (that many blocks
\* of 1 MB each), where target = round(load * 0.5), and once such a call has
\* happened every later call leaves the pool as it is.
C3_ConstantLoadConverges ==
    [][AdjustStep =>
        /\ targetMemMB' * 2 \in {currentUsers, currentUsers + 1}
        /\ ~alloc'.failed =>
              /\ \A i \in 1..Len(memoryBlocks') : memoryBlocks'[i].length = BYTES_PER_MB
              /\ targetMemMB' <= Len(memoryBlocks')
              /\ Len(memoryBlocks') <= targetMemMB' + 2
        /\ (alloc.calls >= 1 /\ ~alloc.failed) => memoryBlocks' = memoryBlocks]_vars

\* the first call grew the pool to its target, the second changed nothing
C3_Witness ==
    /\ alloc.calls = 2
    /\ alloc.attempts = 0
    /\ alloc.popped = 0
    /\ ~alloc.failed
    /\ Len(memoryBlocks) = targetMemMB
    /\ Len(memoryBlocks) >= 1
    /\ memoryBlocks[Len(memoryBlocks)].fill = 255

\* C4: a tick that finds the pool between its target and target + 2 MB
\* neither appends nor removes a block.
C4_BandLeavesPool ==
    [][(TickStep /\ targetMemMB' * BYTES_PER_MB <= PoolBytes
                 /\ PoolBytes <= (targetMemMB' + 2) * BYTES_PER_MB)
        => memoryBlocks' = memoryBlocks]_vars

\* the last tick found the pool strictly above its target and left it alone
C4_Witness ==
    /\ stats.tickCount >= 2
    /\ alloc.attempts = 0
    /\ alloc.popped = 0
    /\ PoolBytes > targetMemMB * BYTES_PER_MB

\* C5: tickCount, totalRequests, peakUsers, peakCpuMs and peakMemMB never
\* decrease, whatever step is taken.
C5_StatsMonotonic ==
    [][/\ stats'.tickCount >= stats.tickCount
       /\ stats'.totalRequests >= stats.totalRequests
       /\ stats'.peakUsers >= stats.peakUsers
       /\ stats'.peakCpuMs >= stats.peakCpuMs
       /\ stats'.peakMemMB >= stats.peakMemMB]_vars

\* after two ticks the peak is above the current load
C5_Witness ==
    /\ stats.tickCount >= 2
    /\ stats.peakUsers > currentUsers
    /\ stats.totalRequests > currentUsers

\* C6: the base level and the phase at t + cycle_length are those at t.
C6_BasePeriodic ==
    [][(clock' = clock + 7800 /\ computed.phase # "none")
        => /\ computed'.base = computed.base
           /\ computed'.phase = computed.phase]_vars

\* the middle of the ramp-down of the second cycle has been evaluated
C6_Witness ==
    /\ clock = cycleSec + rampSec + peakSec + 150
    /\ computed.phase = "ramp-down"

\* the formula of the phase that ends at a boundary, evaluated there (times
\* rampSec); 0 is the wrap from the off-plateau to the next ramp-up
EndingFormulaAt(posInCycle) ==
    IF posInCycle = 0 THEN OFF_BASE * rampSec
    ELSE IF posInCycle = rampSec THEN rampUpBase(posInCycle)
    ELSE IF posInCycle = rampSec + peakSec THEN PEAK_BASE * rampSec
    ELSE rampDownBase(posInCycle)

PhaseBoundaries == {0, rampSec, rampSec + peakSec, rampSec + peakSec + rampSec}

\* C7: at each of the four phase boundaries the formula of the phase that
\* ends there gives the base level of the phase that starts there, and from
\* one whole second to the next the base level moves by at most
\* (PEAK_BASE - OFF_BASE) / rampSec, the wrap of the cycle included.
C7_BaseContinuous ==
    [][/\ (computed'.phase # "none" /\ computed'.posInCycle \in PhaseBoundaries)
            => computed'.base = EndingFormulaAt(computed'.posInCycle)
       /\ (clock' = clock + 1 /\ computed.phase # "none")
            => Abs(computed'.base - computed.base) <= PEAK_BASE - OFF_BASE]_vars

\* the first second of the second cycle has been evaluated
C7_Witness ==
    /\ clock = cycleSec
    /\ computed.phase = "ramp-up"
    /\ computed.posInCycle = 0

\* C8: the base level is 10 at elapsed 0 (ramp-up, progress 0), 65 at 300,
\* 65 at 3750 (peak-plateau) and 37.5 at 4050 (ramp-down).
C8_ScenarioValues ==
    computed.phase # "none" =>
        /\ clock = 0 => /\ computed.base = 10 * 300
                        /\ computed.phase = "ramp-up"
                        /\ computed.progress = 0
        /\ clock = 300 => computed.base = 65 * 300
        /\ clock = 3750 => /\ computed.base = 65 * 300
                           /\ computed.phase = "peak-plateau"
        /\ clock = 4050 => /\ 2 * computed.base = 75 * 300
                           /\ computed.phase = "ramp-down"

\* the base level at elapsed 4050 has been evaluated
C8_Witness ==
    /\ clock = 4050
    /\ computed.phase = "ramp-down"
    /\ computed.progress = 150

\* C9: a call with load 100 sets targetMemMB to 50; a call on an empty pool
\* in which no allocation fails leaves round(load * 0.5) blocks of 1 MB (50
\* for load 100).
C9_GrowthFromEmpty ==
    [][AdjustStep =>
        /\ currentUsers = 100 => targetMemMB' = 50
        /\ (memoryBlocks = <<>> /\ ~alloc'.failed) =>
              /\ 2 * Len(memoryBlocks') \in {currentUsers, currentUsers + 1}
              /\ \A i \in 1..Len(memoryBlocks') : memoryBlocks'[i].length = 1048576
              /\ currentUsers = 100 => Len(memoryBlocks') = 50]_vars

\* load 100 has filled an empty pool in one call
C9_Witness ==
    /\ currentUsers = 100
    /\ alloc.calls = 1
    /\ alloc.attempts = 50
    /\ ~alloc.failed
    /\ Len(memoryBlocks) = 50

\* C10: a tick in which an allocation fails keeps the blocks appended before
\* the failure and appends no more, completes (counters and peaks updated,
\* process alive, so the timer fires again), and every tick that finds the
\* pool below its target attempts an allocation.
C10_AllocFailureRecovered ==
    [][TickStep =>
        /\ alloc'.failed =>
              /\ processAlive'
              /\ Len(memoryBlocks') = Len(memoryBlocks) + alloc'.attempts - 1
              /\ SubSeq(memoryBlocks', 1, Len(memoryBlocks)) = memoryBlocks
              /\ PoolBytes' < targetMemMB' * BYTES_PER_MB
              /\ stats'.peakUsers >= currentUsers'
              /\ stats'.peakCpuMs > 0
        /\ PoolBytes < targetMemMB' * BYTES_PER_MB => alloc'.attempts >= 1]_vars

\* growth failed after two blocks in the first tick and again, after two
\* more, in the second
C10_Witness ==
    /\ stats.tickCount = 2
    /\ processAlive
    /\ alloc.failed
    /\ alloc.attempts = 3
    /\ Len(memoryBlocks) = 4

\* what the specification calls a configuration that may run: every phase
\* lasts longer than 0, both bounds are positive, and min <= max
ValidConfig(cfg) ==
    /\ cfg.PEAK_MINUTES > 0
    /\ cfg.OFF_MINUTES > 0
    /\ cfg.RAMP_MINUTES > 0
    /\ cfg.MAX_USERS > 0
    /\ cfg.MIN_USERS > 0
    /\ cfg.MIN_USERS <= cfg.MAX_USERS

StatusStep == lastStatus' # lastStatus

\* C12: cpuBusy is false in every state in which a tick can start or a
\* status request can be served: each tick, CPU work included, has run to
\* completion before the next handler runs.
C12_HandlersFindCpuIdle ==
    [][(TickStep \/ StatusStep) => (~cpuBusy /\ ~cpuBusy')]_vars

\* a status request has been served after two ticks
C12_Witness ==
    /\ stats.tickCount = 2
    /\ lastStatus # <<>>
    /\ lastStatus[1].tickCount = 2
    /\ ~cpuBusy

\* C13: serving a status request changes none of currentUsers, targetMemMB,
\* the pool and stats.
C13_StatusReadOnly ==
    [][StatusStep => UNCHANGED <<currentUsers, targetMemMB, memoryBlocks, stats>>]_vars

\* a request served between two ticks, its response now stale
C13_Witness ==
    /\ stats.tickCount = 2
    /\ lastStatus # <<>>
    /\ lastStatus[1].tickCount = 1
    /\ lastStatus[1].totalRequests < stats.totalRequests

\* C14: a status response reports the pool size, the load, the target and
\* the counters of one completed tick: those of the state it is served in,
\* where the target is the rounded half of the load.
C14_StatusIsTickSnapshot ==
    [][StatusStep =>
        LET r == lastStatus'[1]
        IN  /\ r.heldBlocksMB * BYTES_PER_MB = PoolBytes
            /\ r.heldBlocksMB = Len(memoryBlocks)
            /\ r.currentUsers = currentUsers
            /\ r.targetMemMB = targetMemMB
            /\ r.tickCount = stats.tickCount
            /\ r.totalRequests = stats.totalRequests
            /\ r.tickCount >= 1 => r.targetMemMB * 2 \in {r.currentUsers, r.currentUsers + 1}]_vars

\* the response reports a pool that an allocation failure left below target
C14_Witness ==
    /\ lastStatus # <<>>
    /\ lastStatus[1].tickCount = stats.tickCount
    /\ lastStatus[1].heldBlocksMB = 2
    /\ lastStatus[1].targetMemMB > 2
    /\ alloc.failed

\* C17: a call removes blocks only when it finds the pool more than 2 MB
\* above its target; the blocks then left are the first target ones, in
\* their order.
C17_ShrinkFromEnd ==
    [][AdjustStep =>
        /\ (Len(memoryBlocks') < Len(memoryBlocks) \/ alloc'.popped > 0) =>
              /\ Len(memoryBlocks) > targetMemMB' + 2
              /\ Len(memoryBlocks') = targetMemMB'
              /\ alloc'.popped = Len(memoryBlocks) - targetMemMB'
              /\ memoryBlocks' = SubSeq(memoryBlocks, 1, targetMemMB')
        /\ Len(memoryBlocks) > targetMemMB' + 2 => alloc'.popped > 0]_vars

\* a call has removed blocks and left the first ones
C17_Witness ==
    /\ alloc.calls = 1
    /\ alloc.popped >= 3
    /\ Len(memoryBlocks) = targetMemMB
    /\ memoryBlocks[1].fill = 1
    /\ memoryBlocks[Len(memoryBlocks)].fill = Len(memoryBlocks)

\* C18: a call that finds the pool below its target, even by one block, and
\* in which no allocation fails, leaves exactly target blocks, the old ones
\* first.
C18_GrowthNotGated ==
    [][(AdjustStep /\ Len(memoryBlocks) < targetMemMB' /\ ~alloc'.failed) =>
        /\ Len(memoryBlocks') = targetMemMB'
        /\ alloc'.attempts = targetMemMB' - Len(memoryBlocks)
        /\ SubSeq(memoryBlocks', 1, Len(memoryBlocks)) = memoryBlocks]_vars

\* a pool one block below its target has grown by that block
C18_Witness ==
    /\ alloc.calls = 1
    /\ alloc.attempts = 1
    /\ ~alloc.failed
    /\ Len(memoryBlocks) = targetMemMB
    /\ Len(memoryBlocks) >= 2

\* C20: lastBurst is null before the first tick; a tick that applies a
\* burst sets it to that tick's timestamp; every other step leaves it as it
\* is, so it is never cleared and never moves back.
C20_LastBurstIsLatest ==
    [][/\ stats.tickCount = 0 => stats.lastBurst = <<>>
       /\ (TickStep /\ computed'.burstNum > BURST_MULTIPLIER_DEN)
            => stats'.lastBurst = <<clock'>>
       /\ ~(TickStep /\ computed'.burstNum > BURST_MULTIPLIER_DEN)
            => stats'.lastBurst = stats.lastBurst
       /\ stats.lastBurst # <<>> =>
            /\ stats'.lastBurst # <<>>
            /\ stats'.lastBurst[1] >= stats.lastBurst[1]]_vars

\* a burst of the first tick is still recorded after a second tick without one
C20_Witness ==
    /\ stats.tickCount = 2
    /\ computed.burstNum = BURST_MULTIPLIER_DEN
    /\ stats.lastBurst # <<>>
    /\ stats.lastBurst[1] < clock

\* C19: while the targets of the calls stay within a window as wide as the
\* margin and the pool starts no more than the margin above the lowest of
\* them, no call removes a block: the pool keeps its blocks, only grows, and
\* never beyond the larger of its size and the call's target.
C19_NoOscillation ==
    [][AdjustStep =>
        /\ targetMemMB' \in JitterTargets
        /\ alloc'.popped = 0
        /\ Len(memoryBlocks') >= Len(memoryBlocks)
        /\ SubSeq(memoryBlocks', 1, Len(memoryBlocks)) = memoryBlocks
        /\ Len(memoryBlocks') <= Max(Len(memoryBlocks), targetMemMB')]_vars

\* the pool has grown to the highest target and a later call with the lowest
\* target has left it two blocks above that target
C19_Witness ==
    /\ alloc.calls = JitterCalls
    /\ targetMemMB = JitterLow
    /\ Len(memoryBlocks) = JitterLow + HYSTERESIS_MB
    /\ memoryBlocks[Len(memoryBlocks)].fill = 255
    /\ alloc.attempts = 0
    /\ alloc.popped = 0

SlideEvent == relay'.events = relay.events + 1

Follower(s) == Connected(s) /\ sockets[s].role = "client"

\* C15: a socket that connects as 'client' is sent currentState, which is
\* the data of the last event accepted from a presenter or the initial state;
\* an event accepted from a presenter becomes currentState and is emitted to
\* every other connected socket; so the last thing emitted to every
\* connected client is currentState.
C15_FollowersHoldCurrentState ==
    [][/\ \A s \in SocketIds :
            (sockets[s].phase = "pending" /\ Follower(s)') =>
                /\ emitted'[s] = <<currentState>>
                /\ currentState = (IF relay.accepted = <<>> THEN InitialSlide
                                   ELSE relay.accepted[1])
       /\ (SlideEvent /\ relay'.role = "presenter") =>
            /\ currentState' = relay'.data
            /\ \E p \in SocketIds :
                 /\ Connected(p)
                 /\ sockets[p].role = "presenter"
                 /\ emitted'[p] = emitted[p]
                 /\ \A t \in SocketIds :
                      (Connected(t) /\ t # p) =>
                          emitted'[t] = Append(emitted[t], relay'.data)
       /\ \A s \in SocketIds :
            Follower(s)' =>
                /\ emitted'[s] # <<>>
                /\ emitted'[s][Len(emitted'[s])] = currentState']_vars

\* a client that joined before a presenter's event and one that joined after
\* it both hold the presenter's slide
C15_Witness ==
    /\ relay.accepted = <<currentState>>
    /\ currentState.indexh > 0
    /\ \E a, b \in SocketIds :
         /\ Follower(a)
         /\ Follower(b)
         /\ emitted[a] = <<InitialSlide, currentState>>
         /\ emitted[b] = <<currentState>>

\* C16: a 'slidechanged' event from a socket whose role is not 'presenter'
\* changes neither currentState nor what has been emitted to any socket.
C16_OnlyPresenterControls ==
    [][(SlideEvent /\ relay'.role # "presenter") =>
        /\ currentState' = currentState
        /\ emitted' = emitted]_vars

\* a client's event that names another slide has been ignored while a
\* presenter's earlier slide stands and another client is connected
C16_Witness ==
    /\ relay.events >= 2
    /\ relay.role = "client"
    /\ relay.data # currentState
    /\ relay.accepted = <<currentState>>
    /\ currentState # InitialSlide
    /\ \E t \in SocketIds :
         Follower(t) /\ emitted[t] = <<InitialSlide, currentState>>

\* C21: a tick adds 1 to tickCount and the load it computed to
\* totalRequests, and makes peakUsers the larger of the old peak and that
\* load; all three start at 0.  So after n ticks they are n, the sum and the
\* maximum of the n loads.
C21_CountersFollowLoad ==
    [][/\ (alloc.calls = 0 => /\ stats.tickCount = 0
                              /\ stats.totalRequests = 0
                              /\ stats.peakUsers = 0)
       /\ AdjustStep =>
            /\ stats'.tickCount = stats.tickCount + 1
            /\ stats'.totalRequests = stats.totalRequests + currentUsers'
            /\ stats'.peakUsers = Max(stats.peakUsers, currentUsers')
       /\ stats'.tickCount = alloc'.calls]_vars

\* two ticks, the second with a lower load than the first
C21_Witness ==
    /\ stats.tickCount = 2
    /\ stats.peakUsers > currentUsers
    /\ stats.totalRequests = stats.peakUsers + currentUsers

\* C23: after every completed tick targetMemMB is round(currentUsers * 0.5),
\* halves up, for the currentUsers of that tick.
C23_TargetFromSameTick ==
    stats.tickCount >= 1 => targetMemMB = Round(currentUsers, 2)

\* a second tick with a lower, odd load has shrunk the pool to its target
C23_Witness ==
    /\ stats.tickCount = 2
    /\ alloc.popped > 0
    /\ currentUsers % 2 = 1
    /\ targetMemMB * 2 = currentUsers + 1
    /\ stats.peakUsers > currentUsers

\* C25: in every reachable state currentUsers <= MAX_USERS.
C25_UsersAtMostMax == currentUsers <= MAX_USERS

\* C27: after a tick in which no allocation failed the pool holds at least
\* targetMemMB and at most targetMemMB + 2 blocks; every block is 1 MB, so
\* the pool's size in MB is its number of blocks.
C27_PoolTracksTarget ==
    /\ \A i \in 1..Len(memoryBlocks) : memoryBlocks[i].length = BYTES_PER_MB
    /\ PoolBytes = Len(memoryBlocks) * BYTES_PER_MB
    /\ (stats.tickCount >= 1 /\ ~alloc.failed) =>
          /\ targetMemMB <= Len(memoryBlocks)
          /\ Len(memoryBlocks) <= targetMemMB + HYSTERESIS_MB

\* a second tick with a slightly lower load has left the pool above target
C27_Witness ==
    /\ stats.tickCount = 2
    /\ ~alloc.failed
    /\ alloc.attempts = 0
    /\ alloc.popped = 0
    /\ Len(memoryBlocks) > targetMemMB

C24_PhasePartition ==
    computed.phase # "none" =>
        LET pos == computed.posInCycle
        IN  /\ pos \in 0..(cycleSec - 1)
            /\ computed.phase \in {"ramp-up", "peak-plateau", "ramp-down", "off-plateau"}
            /\ computed.phase = "ramp-up" <=> (0 <= pos /\ pos < rampSec)
            /\ computed.phase = "peak-plateau"
                 <=> (rampSec <= pos /\ pos < rampSec + peakSec)
            /\ computed.phase = "ramp-down"
                 <=> (rampSec + peakSec <= pos /\ pos < 2 * rampSec + peakSec)
            /\ computed.phase = "off-plateau"
                 <=> (2 * rampSec + peakSec <= pos /\ pos < cycleSec)
            /\ cycleSec - (2 * rampSec + peakSec) = offSec

\* the boundary between plateau and ramp-down, in the second cycle
C24_Witness ==
    /\ clock = cycleSec + rampSec + peakSec
    /\ computed.posInCycle = rampSec + peakSec
    /\ computed.phase = "ramp-down"
    /\ computed.progress = 0

\* C28: the base level is between OFF_BASE and PEAK_BASE at every elapsed
\* time, does not fall from one second of the ramp-up to the next nor rise
\* from one second of the ramp-down to the next, and the ramp progress is
\* in [0, 1).
C28_BaseBetweenPlateaus ==
    [][/\ computed'.phase # "none" =>
            /\ OFF_BASE * rampSec <= computed'.base
            /\ computed'.base <= PEAK_BASE * rampSec
            /\ 0 <= computed'.progress
            /\ computed'.progress < rampSec
       /\ (clock' = clock + 1 /\ computed.phase = "ramp-up"
                              /\ computed'.phase = "ramp-up")
            => computed'.base >= computed.base
       /\ (clock' = clock + 1 /\ computed.phase = "ramp-down"
                              /\ computed'.phase = "ramp-down")
            => computed'.base <= computed.base]_vars

\* the last second of a ramp-down: the base is just above the off level
C28_Witness ==
    /\ computed.phase = "ramp-down"
    /\ computed.progress = rampSec - 1
    /\ computed.base > OFF_BASE * rampSec
    /\ computed.base < (OFF_BASE + 1) * rampSec

\* C26: every state between two handler runs is complete: cpuBusy is
\* false, every counted tick has had its memory adjustment, the target is
\* that of the current load and the peak covers it; and a step that is not
\* a tick (a status request) changes none of currentUsers, targetMemMB, the
\* pool, stats and cpuBusy, so without further timer firings they stay as
\* the last tick left them.
C26_StopLeavesCompleteState ==
    [][/\ ~cpuBusy'
       /\ stats'.tickCount = alloc'.calls
       /\ stats'.tickCount >= 1 =>
            /\ targetMemMB' = Round(currentUsers', 2)
            /\ stats'.peakUsers >= currentUsers'
            /\ stats'.totalRequests >= currentUsers'
            /\ (~alloc'.failed => Len(memoryBlocks') >= targetMemMB')
       /\ ~AdjustStep =>
            UNCHANGED <<currentUsers, targetMemMB, memoryBlocks, stats, cpuBusy,
                        alloc, computed>>]_vars

\* after the last tick a status request has reported a pool that the tick
\* left above its target, and the pool is still as reported
C26_Witness ==
    /\ stats.tickCount = 2
    /\ lastStatus # <<>>
    /\ lastStatus[1].tickCount = 2
    /\ lastStatus[1].heldBlocksMB = Len(memoryBlocks)
    /\ Len(memoryBlocks) > targetMemMB
    /\ alloc.popped = 0
    /\ ~cpuBusy

\* C29: cpuStressActive is true in every state in which a burn worker of
\* some request has not finished, and false once all workers of all
\* requests have finished.
C29_FlagReflectsBurning ==
    /\ immediates # <<>> => cpuStressActive
    /\ immediates = <<>> => ~cpuStressActive

====
